---- MODULE Spec2Model ----
(***************************************************************************)
(* The report/document pipeline of DentAI: the markdown section parser     *)
(* (PDFGenerator._parse_report_sections) and the PDF document generators   *)
(* (generate_summary_pdf, generate_detailed_pdf) of the two copies of the  *)
(* PDF module, app/pdf_generator.py and src/pdf-generator.py.              *)
(*                                                                         *)
(* A Python str is a sequence of one-character strings; a dict is a        *)
(* sequence of <<key, value>> pairs in insertion order; a list is a        *)
(* sequence.                                                               *)
(***************************************************************************)
EXTENDS Integers, Sequences, FiniteSets, TLC

VARIABLES
  pc,              \* "input", "parsed", "generated", "failed" or "regenerated"
  copy,            \* which copy of the PDF module the call ran in
  report_content,  \* the raw report text (the model's answer)
  sections,        \* the dict _parse_report_sections returned
  scanned,         \* the dict as it stood when the line scan had ended
  patient_info,    \* the patient_info dict of the generate call
  logo_path,       \* self.logo_path of the PDFGenerator
  clinic_name,     \* the clinic_name argument
  variant,         \* "summary" or "detailed": which generator ran
  now,             \* datetime.now() as _create_header formatted it
  elements,        \* the flowables handed to doc.build
  pages,           \* what the page callbacks drew, one entry per page
  now2,            \* datetime.now() of a second call with the same arguments
  elements2,       \* the flowables the second call handed to doc.build
  calls,           \* concurrent generate calls on one instance: position, arguments, result
  lists,           \* the elements list of each concurrent call
  buffers,         \* the io.BytesIO buffer of each concurrent call
  session_state,   \* st.session_state of the dashboard
  analyses,        \* the rows of the Analysis table
  last,            \* the last request handled: its inputs, API attempts and outcome
  page,            \* what the page rendered last displays
  users,           \* the rows of the users table
  request_session  \* request.session of the browser talking to the FastAPI app

\* the variables of one generate call and of the call repeated
pdf_vars == << pc, report_content, sections, scanned, patient_info, clinic_name,
               variant, now, elements, pages, now2, elements2 >>

\* the variables of the concurrent calls
concurrent_vars == << calls, lists, buffers >>

\* the variables of the analysis flows
analysis_vars == << session_state, analyses, last, page >>


vars == << pc, copy, report_content, sections, scanned, patient_info, logo_path,
           clinic_name, variant, now, elements, pages, now2, elements2,
           calls, lists, buffers, session_state, analyses, last, page,
           users, request_session >>

-----------------------------------------------------------------------------
(* Bounds of the model *)

\* longest report text handed to _parse_report_sections alone
MaxLen == 6

\* longest report text handed to a document generator
MaxDocLen == 3

\* most pages the layout of one document runs to
MaxPages == 2

\* the characters report texts are made of: the heading marker, a blank, the
\* line separator and a letter
Alphabet == {"#", " ", "\n", "a"}

Strings(n) == UNION {[1..k -> Alphabet] : k \in 0..n}

\* report texts with a heading titled "Findings": after text of their own, after
\* another heading, and with nothing before it
FindingsHeadingTexts ==
  { << "a", "\n", "#", "F", "i", "n", "d", "i", "n", "g", "s", "\n", " " >>,
    << "#", "\n", "a", "\n", "#", " ", "F", "i", "n", "d", "i", "n", "g", "s", "\n" >>,
    << "#", "F", "i", "n", "d", "i", "n", "g", "s" >> }

\* the report texts the parser is run on
ReportTexts == Strings(MaxLen) \cup FindingsHeadingTexts

-----------------------------------------------------------------------------
(* Python str and list operations, as the code uses them *)

\* the two copies of the PDF module
App == "app/pdf_generator.py"
Src == "src/pdf-generator.py"
Copies == {App, Src}

\* what str.strip() with no argument removes
Whitespace == {" ", "\t", "\n", "\r", "\f"}

RECURSIVE lstrip(_, _)
lstrip(s, chars) ==
  IF s # <<>> /\ Head(s) \in chars THEN lstrip(Tail(s), chars) ELSE s

RECURSIVE rstrip(_, _)
rstrip(s, chars) ==
  IF s # <<>> /\ s[Len(s)] \in chars THEN rstrip(SubSeq(s, 1, Len(s) - 1), chars) ELSE s

strip(s, chars) == rstrip(lstrip(s, chars), chars)

startswith(s, prefix) ==
  Len(s) >= Len(prefix) /\ SubSeq(s, 1, Len(prefix)) = prefix

\* s.split(sep) for a non-empty separator: the pieces between the leftmost
\* non-overlapping occurrences of sep; i scans, start is where the piece began
RECURSIVE SplitFrom(_, _, _, _)
SplitFrom(s, sep, i, start) ==
  IF i + Len(sep) - 1 > Len(s)
    THEN << SubSeq(s, start, Len(s)) >>
    ELSE IF SubSeq(s, i, i + Len(sep) - 1) = sep
      THEN << SubSeq(s, start, i - 1) >>
             \o SplitFrom(s, sep, i + Len(sep), i + Len(sep))
      ELSE SplitFrom(s, sep, i + 1, start)

split(s, sep) == SplitFrom(s, sep, 1, 1)

\* sep.join(items)
RECURSIVE join(_, _)
join(sep, items) ==
  IF items = <<>> THEN <<>>
  ELSE IF Len(items) = 1 THEN items[1]
  ELSE items[1] \o sep \o join(sep, Tail(items))

\* sections.setdefault(key, value): the first value stored under a key stays
DictSet_keep_first(d, key, value) ==
  IF \E i \in 1..Len(d) : d[i][1] = key THEN d ELSE Append(d, << key, value >>)

\* d[key] = value on an insertion-ordered dict: an existing key keeps its place
DictSet(d, key, value) ==
  IF \E i \in 1..Len(d) : d[i][1] = key
    THEN [i \in 1..Len(d) |-> IF d[i][1] = key THEN << key, value >> ELSE d[i]]
    ELSE Append(d, << key, value >>)

Keys(d) == [i \in 1..Len(d) |-> d[i][1]]

-----------------------------------------------------------------------------
(* PDFGenerator._parse_report_sections *)

Findings ==
  << "F", "i", "n", "d", "i", "n", "g", "s" >>

\* app/pdf_generator.py: if line.startswith('#')
is_header_app(line) == startswith(line, << "#" >>)

\* src/pdf-generator.py: if line.strip().startswith('#')
is_header_src(line) == startswith(strip(line, Whitespace), << "#" >>)

is_header(c, line) == IF c = App THEN is_header_app(line) ELSE is_header_src(line)

\* app/pdf_generator.py: current_section = line.strip('#').strip()
section_title_app(line) == strip(strip(line, {"#"}), Whitespace)

\* src/pdf-generator.py: current_section = line.lstrip('#').strip()
section_title_src(line) == strip(lstrip(line, {"#"}), Whitespace)

section_title(c, line) ==
  IF c = App THEN section_title_app(line) ELSE section_title_src(line)

\* commit without the test of current_content: a heading with no line after it
\* gets an entry with an empty body
commit_unconditional(secs, current_section, current_content) ==
  DictSet(secs, current_section, join(<< "\n" >>, current_content))

\* commit testing the joined text, not the list: if '\n'.join(current_content)
commit_if_text(secs, current_section, current_content) ==
  IF join(<< "\n" >>, current_content) # <<>>
    THEN DictSet(secs, current_section, join(<< "\n" >>, current_content))
    ELSE secs

\* commit with the lines run together: ''.join(current_content)
commit_unseparated(secs, current_section, current_content) ==
  IF current_content # <<>>
    THEN DictSet(secs, current_section, join(<<>>, current_content))
    ELSE secs

\* if current_content: sections[current_section] = '\n'.join(current_content)
commit(secs, current_section, current_content) ==
  IF current_content # <<>>
    THEN DictSet(secs, current_section, join(<< "\n" >>, current_content))
    ELSE secs

\* the loop without current_content = [] after a section is saved
RECURSIVE scan_lines_no_reset(_, _, _, _)
scan_lines_no_reset(c, lines, i, st) ==
  IF i > Len(lines) THEN st
  ELSE IF is_header(c, lines[i])
    THEN scan_lines_no_reset(c, lines, i + 1,
           [sections |-> commit(st.sections, st.current_section, st.current_content),
            current_section |-> section_title(c, lines[i]),
            current_content |-> st.current_content])
    ELSE scan_lines_no_reset(c, lines, i + 1,
           [st EXCEPT !.current_content = Append(@, lines[i])])

\* the for loop over the lines; st is the loop's state
RECURSIVE scan_lines(_, _, _, _)
scan_lines(c, lines, i, st) ==
  IF i > Len(lines) THEN st
  ELSE IF is_header(c, lines[i])
    THEN scan_lines(c, lines, i + 1,
           [sections |-> commit(st.sections, st.current_section, st.current_content),
            current_section |-> section_title(c, lines[i]),
            current_content |-> <<>>])
    ELSE scan_lines(c, lines, i + 1,
           [st EXCEPT !.current_content = Append(@, lines[i])])

\* the dict when the scan has ended and the last section has been added
scan_result(c, content) ==
  LET st == scan_lines(c, split(content, << "\n" >>), 1,
              [sections |-> <<>>, current_section |-> Findings,
               current_content |-> <<>>])
  IN  commit(st.sections, st.current_section, st.current_content)

\* the fallback storing what the scan accumulated (nothing) instead of the input
findings_fallback_accumulated(secs, content) ==
  IF secs = <<>> THEN DictSet(secs, Findings, <<>>) ELSE secs

\* no fallback at all
findings_fallback_absent(secs, content) == secs

\* if not sections: sections["Findings"] = report_content
findings_fallback(secs, content) ==
  IF secs = <<>> THEN DictSet(secs, Findings, content) ELSE secs

_parse_report_sections(c, content) ==
  findings_fallback(scan_result(c, content), content)

-----------------------------------------------------------------------------
(* reportlab flowables, as records; letter is the page size in points *)

Paragraph(text, style) ==
  [kind |-> "Paragraph", text |-> text, style |-> style, data |-> <<>>,
   file |-> "", width |-> 0, height |-> 0]

Spacer(width, height) ==
  [kind |-> "Spacer", text |-> <<>>, style |-> "", data |-> <<>>,
   file |-> "", width |-> width, height |-> height]

Table(data) ==
  [kind |-> "Table", text |-> <<>>, style |-> "", data |-> data,
   file |-> "", width |-> 0, height |-> 0]

Image(file, width, height) ==
  [kind |-> "Image", text |-> <<>>, style |-> "", data |-> <<>>,
   file |-> file, width |-> width, height |-> height]

LetterWidth == 612

Digits == << "0", "1", "2", "3", "4", "5", "6", "7", "8", "9" >>

\* str(n) of a non-negative int
RECURSIVE str(_)
str(n) == IF n < 10 THEN << Digits[n + 1] >> ELSE str(n \div 10) \o << Digits[(n % 10) + 1] >>

\* d.get(key, default) on a dict held as a function
get(d, key, default) == IF key \in DOMAIN d THEN d[key] ELSE default

-----------------------------------------------------------------------------
(* The generators' inputs *)

NA ==
  << "N", "/", "A" >>

DefaultClinicName ==
  << "D", "e", "n", "t", "a", "l", " ", "C", "l", "i", "n", "i", "c" >>

JaneDoe ==
  << "J", "a", "n", "e", " ", "D", "o", "e" >>

Female ==
  << "F", "e", "m", "a", "l", "e" >>

ToothPain ==
  << "T", "o", "o", "t", "h", " ", "p", "a", "i", "n" >>

NoneText ==
  << "N", "o", "n", "e" >>

Timestamp1 ==
  << "N", "o", "v", "e", "m", "b", "e", "r", " ", "0", "4", ",", " ", "2", "0", "2", "6",
     " ", "0", "9", ":", "3", "0" >>

\* one minute later
Timestamp2 ==
  << "N", "o", "v", "e", "m", "b", "e", "r", " ", "0", "4", ",", " ", "2", "0", "2", "6",
     " ", "0", "9", ":", "3", "1" >>

\* the example record, the same with two fields left empty in the form, and a
\* dict that holds the name alone
FullPatient ==
  [name |-> JaneDoe, age |-> 34, gender |-> Female, complaint |-> ToothPain,
   medical_history |-> NoneText]

EmptyFieldsPatient ==
  [name |-> JaneDoe, age |-> 34, gender |-> Female, complaint |-> <<>>,
   medical_history |-> <<>>]

NameOnlyPatient == [name |-> JaneDoe]

PatientInfos == {FullPatient, EmptyFieldsPatient, NameOnlyPatient}

\* logo_path: None, a path no file is at, the path of an image file
NoLogo == "None"
MissingLogo == "missing_logo.png"
ClinicLogo == "clinic_logo.png"
\* a file that exists and does not hold an image
CorruptLogo == "corrupt_logo.png"
LogoPaths == {NoLogo, MissingLogo, ClinicLogo, CorruptLogo}

\* os.path.exists
path_exists(path) == path \in {ClinicLogo, CorruptLogo}

\* whether reportlab can open the file of an Image flowable as an image
image_readable(path) == path \in {ClinicLogo}

ClinicNames == {DefaultClinicName}

\* datetime.now().strftime('%B %d, %Y %H:%M')
Clock == {Timestamp1}

\* datetime.now() of a call made after a call that read t: the same minute
\* or a later one
NotBefore(t) == {t, Timestamp2}

-----------------------------------------------------------------------------
(* PDFGenerator._create_header *)

ReportGeneratedPrefix ==
  << "R", "e", "p", "o", "r", "t", " ", "G", "e", "n", "e", "r", "a", "t", "e", "d", ":",
     " " >>

_create_header(logo, name, t) ==
  (IF logo # NoLogo /\ path_exists(logo)
     THEN << Image(logo, 100, 50), Spacer(1, 10) >>
     ELSE <<>>)
  \o << Paragraph(name, "ReportTitle"), Spacer(1, 10),
        Paragraph(ReportGeneratedPrefix \o t, "Normal"), Spacer(1, 20) >>

-----------------------------------------------------------------------------
(* PDFGenerator._create_patient_info_section *)

PatientInformationText ==
  << "P", "a", "t", "i", "e", "n", "t", " ", "I", "n", "f", "o", "r", "m", "a", "t", "i",
     "o", "n" >>

NameLabel ==
  << "N", "a", "m", "e", ":" >>

AgeLabel ==
  << "A", "g", "e", ":" >>

GenderLabel ==
  << "G", "e", "n", "d", "e", "r", ":" >>

ComplaintLabel ==
  << "P", "r", "i", "m", "a", "r", "y", " ", "C", "o", "m", "p", "l", "a", "i", "n", "t",
     ":" >>

MedicalHistoryLabel ==
  << "M", "e", "d", "i", "c", "a", "l", " ", "H", "i", "s", "t", "o", "r", "y", ":" >>

\* str(patient_info.get('age', 'N/A')): the age is an int where it is present
age_text(info) == IF "age" \in DOMAIN info THEN str(info["age"]) ELSE NA

patient_table_data(info) ==
  << << NameLabel, get(info, "name", NA) >>,
     << AgeLabel, age_text(info) >>,
     << GenderLabel, get(info, "gender", NA) >>,
     << ComplaintLabel, get(info, "complaint", NA) >>,
     << MedicalHistoryLabel, get(info, "medical_history", NA) >> >>

_create_patient_info_section(info) ==
  << Paragraph(PatientInformationText, "SectionHeading"),
     Table(patient_table_data(info)),
     Spacer(1, 15) >>

-----------------------------------------------------------------------------
(* PDFGenerator._create_findings_section *)

\* app/pdf_generator.py: for para in paragraphs: if para.strip(): Paragraph(para)
RECURSIVE paragraphs_app(_)
paragraphs_app(paras) ==
  IF paras = <<>> THEN <<>>
  ELSE (IF strip(Head(paras), Whitespace) # <<>>
          THEN << Paragraph(Head(paras), "ReportText") >>
          ELSE <<>>)
       \o paragraphs_app(Tail(paras))

\* src/pdf-generator.py: for para in filter(None, (p.strip() for p in ...))
RECURSIVE paragraphs_src(_)
paragraphs_src(paras) ==
  IF paras = <<>> THEN <<>>
  ELSE (IF strip(Head(paras), Whitespace) # <<>>
          THEN << Paragraph(strip(Head(paras), Whitespace), "ReportText") >>
          ELSE <<>>)
       \o paragraphs_src(Tail(paras))

\* the loop body with the heading added only when a paragraph follows it
section_elements_headed_if_text(c, title, content) ==
  IF paragraphs_app(split(content, << "\n", "\n" >>)) = <<>>
    THEN << Spacer(1, 10) >>
    ELSE << Paragraph(title, "SectionHeading") >>
         \o (IF c = App
               THEN paragraphs_app(split(content, << "\n", "\n" >>))
               ELSE paragraphs_src(split(content, << "\n", "\n" >>)))
         \o << Spacer(1, 10) >>

\* the body of the loop over sections.items()
section_elements(c, title, content) ==
  << Paragraph(title, "SectionHeading") >>
  \o (IF c = App
        THEN paragraphs_app(split(content, << "\n", "\n" >>))
        ELSE paragraphs_src(split(content, << "\n", "\n" >>)))
  \o << Spacer(1, 10) >>

RECURSIVE sections_elements(_, _)
sections_elements(c, secs) ==
  IF secs = <<>> THEN <<>>
  ELSE section_elements(c, secs[1][1], secs[1][2]) \o sections_elements(c, Tail(secs))

_create_findings_section(c, content) ==
  sections_elements(c, _parse_report_sections(c, content))

-----------------------------------------------------------------------------
(* PDFGenerator._create_signature_section *)

ApprovalText ==
  << "A", "p", "p", "r", "o", "v", "a", "l" >>

ConfirmText ==
  << "I", " ", "c", "o", "n", "f", "i", "r", "m", " ", "t", "h", "a", "t", " ", "I", " ",
     "h", "a", "v", "e", " ", "r", "e", "v", "i", "e", "w", "e", "d", " ", "t", "h", "i",
     "s", " ", "A", "I", "-", "g", "e", "n", "e", "r", "a", "t", "e", "d", " ", "r", "e",
     "p", "o", "r", "t", " ", "a", "n", "d", ":" >>

CheckBox ==
  << "U+2610" >>

ApproveText ==
  << "A", "p", "p", "r", "o", "v", "e", " ", "t", "h", "e", " ", "f", "i", "n", "d", "i",
     "n", "g", "s", " ", "a", "s", " ", "p", "r", "e", "s", "e", "n", "t", "e", "d" >>

ApproveModText ==
  << "A", "p", "p", "r", "o", "v", "e", " ", "w", "i", "t", "h", " ", "m", "o", "d", "i",
     "f", "i", "c", "a", "t", "i", "o", "n", "s", " ", "n", "o", "t", "e", "d", " ", "b",
     "e", "l", "o", "w" >>

RejectText ==
  << "R", "e", "j", "e", "c", "t", " ", "t", "h", "e", " ", "f", "i", "n", "d", "i", "n",
     "g", "s" >>

NotesText ==
  << "N", "o", "t", "e", "s", ":" >>

DoctorsSignatureText ==
  << "D", "o", "c", "t", "o", "r", "'", "s", " ", "S", "i", "g", "n", "a", "t", "u", "r",
     "e" >>

DateText ==
  << "D", "a", "t", "e" >>

\* "_" * 50
RECURSIVE repeat(_, _)
repeat(ch, n) == IF n = 0 THEN <<>> ELSE << ch >> \o repeat(ch, n - 1)

approval_options ==
  << << CheckBox, ApproveText >>,
     << CheckBox, ApproveModText >>,
     << CheckBox, RejectText >> >>

_create_signature_section ==
  << Paragraph(ApprovalText, "SectionHeading"),
     Paragraph(ConfirmText, "ReportText"),
     Spacer(1, 20),
     Table(approval_options),
     Spacer(1, 20),
     Paragraph(NotesText, "ReportText"),
     Spacer(1, 40),
     Paragraph(repeat("_", 50), "Normal"),
     Paragraph(DoctorsSignatureText, "Footer"),
     Spacer(1, 15),
     Paragraph(repeat("_", 50), "Normal"),
     Paragraph(DateText, "Footer") >>

-----------------------------------------------------------------------------
(* PDFGenerator._create_footer and SimpleDocTemplate.build *)

PagePrefix ==
  << "P", "a", "g", "e", " " >>

FooterDisclaimer ==
  << "A", "I", "-", "G", "E", "N", "E", "R", "A", "T", "E", "D", " ", "R", "E", "P", "O",
     "R", "T", ":", " ", "T", "h", "i", "s", " ", "r", "e", "p", "o", "r", "t", " ", "w",
     "a", "s", " ", "g", "e", "n", "e", "r", "a", "t", "e", "d", " ", "w", "i", "t", "h",
     " ", "a", "r", "t", "i", "f", "i", "c", "i", "a", "l", " ", "i", "n", "t", "e", "l",
     "l", "i", "g", "e", "n", "c", "e", " ", "a", "n", "d", " ", "s", "h", "o", "u", "l",
     "d", " ", "b", "e", " ", "r", "e", "v", "i", "e", "w", "e", "d", " ", "b", "y", " ",
     "a", " ", "q", "u", "a", "l", "i", "f", "i", "e", "d", " ", "d", "e", "n", "t", "a",
     "l", " ", "p", "r", "o", "f", "e", "s", "s", "i", "o", "n", "a", "l", " ", "b", "e",
     "f", "o", "r", "e", " ", "u", "s", "e", " ", "i", "n", " ", "d", "i", "a", "g", "n",
     "o", "s", "i", "s", " ", "o", "r", " ", "t", "r", "e", "a", "t", "m", "e", "n", "t",
     "." >>

\* what one call draws on the canvas of page page_num
_create_footer(page_num) ==
  << [op |-> "drawRightString", x |-> LetterWidth - 30, y |-> 30,
      text |-> PagePrefix \o str(page_num)],
     [op |-> "drawString", x |-> 30, y |-> 30, text |-> FooterDisclaimer] >>

\* doc.build(elements, onFirstPage=self._create_footer, ...)
onFirstPage(page_num) == _create_footer(page_num)

\* doc.build(elements, onFirstPage=self._create_footer) alone: later pages are
\* left to the default callback, which draws nothing
onLaterPages_default(page_num) == <<>>

\* doc.build(elements, ..., onLaterPages=self._create_footer)
onLaterPages(page_num) == _create_footer(page_num)

\* the layout runs to n pages; the first page's callback is onFirstPage, every
\* later page's is onLaterPages
\* doc.build draws every flowable; drawing an Image opens its file, and a file
\* that is no image raises out of doc.build and out of the generator
build_raises(flowables) ==
  \E i \in 1..Len(flowables) :
    flowables[i].kind = "Image" /\ ~image_readable(flowables[i].file)

build(n) ==
  [p \in 1..n |-> IF p = 1 THEN onFirstPage(p) ELSE onLaterPages(p)]

-----------------------------------------------------------------------------
(* PDFGenerator.generate_summary_pdf and generate_detailed_pdf *)

SummaryTitle ==
  << "D", "e", "n", "t", "a", "l", " ", "A", "I", " ", "A", "n", "a", "l", "y", "s", "i",
     "s", " ", "-", " ", "S", "u", "m", "m", "a", "r", "y", " ", "R", "e", "p", "o", "r",
     "t" >>

DetailedTitle ==
  << "D", "e", "n", "t", "a", "l", " ", "A", "I", " ", "A", "n", "a", "l", "y", "s", "i",
     "s", " ", "-", " ", "D", "e", "t", "a", "i", "l", "e", "d", " ", "R", "e", "p", "o",
     "r", "t" >>

DetailedDisclaimer ==
  << "D", "I", "S", "C", "L", "A", "I", "M", "E", "R", ":", " ", "T", "h", "i", "s", " ",
     "d", "e", "t", "a", "i", "l", "e", "d", " ", "r", "e", "p", "o", "r", "t", " ", "p",
     "r", "o", "v", "i", "d", "e", "s", " ", "t", "h", "e", " ", "A", "I", " ", "s", "y",
     "s", "t", "e", "m", "'", "s", " ", "r", "e", "a", "s", "o", "n", "i", "n", "g", " ",
     "a", "n", "d", " ", "a", "n", "a", "l", "y", "s", "i", "s", ".", " ", "A", "l", "l",
     " ", "f", "i", "n", "d", "i", "n", "g", "s", " ", "s", "h", "o", "u", "l", "d", " ",
     "b", "e", " ", "i", "n", "d", "e", "p", "e", "n", "d", "e", "n", "t", "l", "y", " ",
     "v", "e", "r", "i", "f", "i", "e", "d", " ", "b", "y", " ", "a", " ", "q", "u", "a",
     "l", "i", "f", "i", "e", "d", " ", "d", "e", "n", "t", "a", "l", " ", "p", "r", "o",
     "f", "e", "s", "s", "i", "o", "n", "a", "l", "." >>

\* elements = [] kept on the instance: a call starts from the list the
\* call before it left
elements_of_instance(previous) == previous

\* elements = []: each call starts from a list of its own, whatever a call
\* before it built
new_elements(previous) == <<>>

summary_elements(c, logo, info, content, name, t) ==
  _create_header(logo, name, t)
  \o << Paragraph(SummaryTitle, "ReportTitle"), Spacer(1, 10) >>
  \o _create_patient_info_section(info)
  \o _create_findings_section(c, content)
  \o _create_signature_section

\* the detailed generator with the summary's approval block kept at its end
detailed_elements_signed(c, logo, info, content, name, t) ==
  _create_header(logo, name, t)
  \o << Paragraph(DetailedTitle, "ReportTitle"), Spacer(1, 10) >>
  \o _create_patient_info_section(info)
  \o _create_findings_section(c, content)
  \o << Spacer(1, 20), Paragraph(DetailedDisclaimer, "Footer") >>
  \o _create_signature_section

detailed_elements(c, logo, info, content, name, t) ==
  _create_header(logo, name, t)
  \o << Paragraph(DetailedTitle, "ReportTitle"), Spacer(1, 10) >>
  \o _create_patient_info_section(info)
  \o _create_findings_section(c, content)
  \o << Spacer(1, 20), Paragraph(DetailedDisclaimer, "Footer") >>

-----------------------------------------------------------------------------
(* The state machine *)

NoPatient == [k \in {} |-> <<>>]

\* two generate calls in flight on one PDFGenerator
CallIds == {1, 2}

\* a call that has not been made
NoCall ==
  [pc |-> "idle", variant |-> "none", patient_info |-> NoPatient, report_content |-> <<>>,
   clinic_name |-> <<>>, now |-> <<>>, overlapped |-> FALSE, result |-> <<>>]

NoCalls == [id \in CallIds |-> NoCall]

NoAnalysis == [k \in {} |-> <<>>]

\* passlib's bcrypt.hash and bcrypt.verify: a hash verifies the password it
\* was made from and no other
bcrypt_hash(password) == << "bcrypt", password >>
bcrypt_verify(password, hash) == hash = bcrypt_hash(password)

\* None, as get_current_user and authenticate_user return it
NoUser ==
  [id |-> 0, username |-> "None", password_hash |-> <<>>, is_admin |-> FALSE,
   user_type |-> "None", openai_api_key |-> "None"]

\* the row seed_admin inserts into an empty users table
Superadmin ==
  [id |-> 1, username |-> "superadmin", password_hash |-> bcrypt_hash("ChangeMe123!"),
   is_admin |-> TRUE, user_type |-> "admin", openai_api_key |-> "None"]

\* a dentist an admin has created and bound a key to
Dentist ==
  [id |-> 2, username |-> "alice", password_hash |-> bcrypt_hash("secret"),
   is_admin |-> FALSE, user_type |-> "dentist", openai_api_key |-> "sk-1"]

\* request.session: a dict, empty until login_user stores user_id
EmptySession == <<>>

\* get_current_user: the row whose id the session carries, None when the
\* session carries none or no row has it
get_current_user(session, rows) ==
  LET ids == {session[n][2] : n \in {m \in 1..Len(session) : session[m][1] = "user_id"}}
  IN  IF \E id \in ids, n \in 1..Len(rows) : id # 0 /\ rows[n].id = id
        THEN rows[CHOOSE n \in 1..Len(rows) : rows[n].id \in ids]
        ELSE NoUser

user_type(user) == user.user_type

\* login_user
login_user(session, user) == DictSet(session, "user_id", user.id)

\* the session as setup() of the dashboard leaves it, the form not yet filled in
NoSession ==
  [data_privacy |-> [anonymize |-> FALSE],
   patient_name |-> <<>>,
   current_analysis |-> NoAnalysis,
   history |-> <<>>]

\* what the last handler was asked and what it did
Handled(handler, request, anonymize, attempts, error, response) ==
  [handler |-> handler, request |-> request, anonymize |-> anonymize,
   attempts |-> attempts, error |-> error, response |-> response]

\* no request handled yet
NoRequest == Handled("none", NoAnalysis, FALSE, <<>>, "none", "none")

Init ==
  /\ report_content \in ReportTexts
  /\ pc = "input"
  /\ copy = "none"
  /\ sections = <<>>
  /\ scanned = <<>>
  /\ patient_info = NoPatient
  /\ logo_path = NoLogo
  /\ clinic_name = <<>>
  /\ variant = "none"
  /\ now = <<>>
  /\ elements = <<>>
  /\ pages = <<>>
  /\ now2 = <<>>
  /\ elements2 = <<>>
  /\ session_state = NoSession
  /\ analyses = <<>>
  /\ last = NoRequest
  /\ page = <<>>
  /\ users = << Superadmin >>
  /\ request_session = EmptySession
  /\ calls = NoCalls
  /\ lists = [id \in CallIds |-> <<>>]
  /\ buffers = [id \in CallIds |-> <<>>]

\* a call of _parse_report_sections of either copy on the report text
ParseReportSections ==
  /\ pc = "input"
  /\ \E c \in Copies :
       /\ copy' = c
       /\ scanned' = scan_result(c, report_content)
       /\ sections' = _parse_report_sections(c, report_content)
  /\ pc' = "parsed"
  /\ UNCHANGED << report_content, patient_info, logo_path, clinic_name, variant,
                  now, elements, pages, now2, elements2 >>
  /\ UNCHANGED concurrent_vars
  /\ UNCHANGED analysis_vars
  /\ UNCHANGED << users, request_session >>

\* the list of flowables a generator hands to doc.build
generator_elements(v, c, logo, info, content, name, t) ==
  IF v = "summary"
    THEN summary_elements(c, logo, info, content, name, t)
    ELSE detailed_elements(c, logo, info, content, name, t)

\* what both generators do around their list of flowables; when doc.build
\* raises, the call returns no document
Generate(v, c, logo, info, name, t, n) ==
  LET built == new_elements(elements)
                 \o generator_elements(v, c, logo, info, report_content, name, t)
  IN  /\ copy' = c
      /\ logo_path' = logo
      /\ patient_info' = info
      /\ clinic_name' = name
      /\ now' = t
      /\ variant' = v
      /\ scanned' = scan_result(c, report_content)
      /\ sections' = _parse_report_sections(c, report_content)
      /\ IF build_raises(built)
           THEN /\ elements' = <<>>
                /\ pages' = <<>>
                /\ pc' = "failed"
           ELSE /\ elements' = built
                /\ pages' = build(n)
                /\ pc' = "generated"
      /\ UNCHANGED << report_content, now2, elements2 >>
      /\ UNCHANGED concurrent_vars
      /\ UNCHANGED analysis_vars
      /\ UNCHANGED << users, request_session >>

GenerateSummaryPdf ==
  /\ pc = "input"
  /\ Len(report_content) <= MaxDocLen
  /\ \E c \in Copies, logo \in LogoPaths, info \in PatientInfos,
        name \in ClinicNames, t \in Clock, n \in 1..MaxPages :
       Generate("summary", c, logo, info, name, t, n)

GenerateDetailedPdf ==
  /\ pc = "input"
  /\ Len(report_content) <= MaxDocLen
  /\ \E c \in Copies, logo \in LogoPaths, info \in PatientInfos,
        name \in ClinicNames, t \in Clock, n \in 1..MaxPages :
       Generate("detailed", c, logo, info, name, t, n)

\* a second call of the same generator, on the same instance or on a fresh one
\* with the same logo_path, with the arguments of the first call
GenerateAgain ==
  /\ pc = "generated"
  /\ \E t \in NotBefore(now) :
       /\ now2' = t
       /\ elements2' = new_elements(elements)
                         \o generator_elements(variant, copy, logo_path, patient_info,
                                               report_content, clinic_name, t)
  /\ pc' = "regenerated"
  /\ UNCHANGED << copy, report_content, sections, scanned, patient_info, logo_path,
                  clinic_name, variant, now, elements, pages >>
  /\ UNCHANGED concurrent_vars
  /\ UNCHANGED analysis_vars
  /\ UNCHANGED << users, request_session >>

Next ==
  \/ ParseReportSections
  \/ GenerateSummaryPdf
  \/ GenerateDetailedPdf
  \/ GenerateAgain

Spec == Init /\ [][Next]_vars

-----------------------------------------------------------------------------
(* Two generate calls on one PDFGenerator, interleaved statement by        *)
(* statement. The instance holds logo_path and the style sheet, which the  *)
(* calls only read; buffer, doc and elements are locals of each call.      *)

\* the report texts of the concurrent calls
ConcurrentTexts == { << "a" >>, << "#", "\n", "a" >> }

\* the patient_info dicts of the concurrent calls
ConcurrentPatients == {FullPatient, NameOnlyPatient}

\* the statements of a generator that add to its elements list, in order
Statements == << "header", "title", "patient", "findings", "tail" >>

\* what one statement of a generator adds to elements
statement_elements(statement, v, c, logo, info, content, name, t) ==
  CASE statement = "header" -> _create_header(logo, name, t)
    [] statement = "title" ->
         << Paragraph(IF v = "summary" THEN SummaryTitle ELSE DetailedTitle, "ReportTitle"),
            Spacer(1, 10) >>
    [] statement = "patient" -> _create_patient_info_section(info)
    [] statement = "findings" -> _create_findings_section(c, content)
    [] statement = "tail" ->
         IF v = "summary"
           THEN _create_signature_section
           ELSE << Spacer(1, 20), Paragraph(DetailedDisclaimer, "Footer") >>

\* the position after a statement
next_statement(statement) ==
  CASE statement = "header" -> "title"
    [] statement = "title" -> "patient"
    [] statement = "patient" -> "findings"
    [] statement = "findings" -> "tail"
    [] statement = "tail" -> "build"

\* buffer and elements kept on the instance: every call uses the same ones
local_on_instance(id) == 1

\* buffer = io.BytesIO() and elements = [] are locals: each call has its own
local(id) == id

InFlight(id) == calls[id].pc \notin {"idle", "done", "raised"}

InitConcurrent ==
  /\ copy \in Copies
  /\ logo_path \in LogoPaths
  /\ calls = NoCalls
  /\ lists = [id \in CallIds |-> <<>>]
  /\ buffers = [id \in CallIds |-> <<>>]
  /\ pc = "input"
  /\ report_content = <<>>
  /\ sections = <<>>
  /\ scanned = <<>>
  /\ patient_info = NoPatient
  /\ clinic_name = <<>>
  /\ variant = "none"
  /\ now = <<>>
  /\ elements = <<>>
  /\ pages = <<>>
  /\ now2 = <<>>
  /\ elements2 = <<>>
  /\ session_state = NoSession
  /\ analyses = <<>>
  /\ last = NoRequest
  /\ page = <<>>
  /\ users = << Superadmin >>
  /\ request_session = EmptySession

\* generate_summary_pdf / generate_detailed_pdf is entered: buffer = io.BytesIO(),
\* doc = SimpleDocTemplate(buffer, ...), elements = []
Call(id) ==
  /\ calls[id].pc = "idle"
  /\ \E v \in {"summary", "detailed"}, info \in ConcurrentPatients,
        content \in ConcurrentTexts, name \in ClinicNames :
       calls' = [calls EXCEPT ![id] =
                   [pc |-> "header", variant |-> v, patient_info |-> info,
                    report_content |-> content, clinic_name |-> name, now |-> <<>>,
                    overlapped |-> \E other \in CallIds \ {id} : InFlight(other),
                    result |-> <<>>]]
  /\ lists' = [lists EXCEPT ![local(id)] = <<>>]
  /\ buffers' = [buffers EXCEPT ![local(id)] = <<>>]
  /\ UNCHANGED << copy, logo_path >>
  /\ UNCHANGED pdf_vars
  /\ UNCHANGED analysis_vars
  /\ UNCHANGED << users, request_session >>

\* one elements.extend(...) / elements.append(...) statement of the call
Extend(id) ==
  /\ \E n \in 1..Len(Statements) : calls[id].pc = Statements[n]
  /\ \E t \in (IF calls[id].pc = "header" THEN Clock ELSE {calls[id].now}) :
       /\ lists' = [lists EXCEPT ![local(id)] =
                      @ \o statement_elements(calls[id].pc, calls[id].variant, copy,
                                              logo_path, calls[id].patient_info,
                                              calls[id].report_content,
                                              calls[id].clinic_name, t)]
       /\ calls' = [calls EXCEPT ![id].pc = next_statement(@), ![id].now = t]
  /\ UNCHANGED << copy, logo_path, buffers >>
  /\ UNCHANGED pdf_vars
  /\ UNCHANGED analysis_vars
  /\ UNCHANGED << users, request_session >>

\* doc.build(elements, ...) writes the document into the call's buffer, or raises
Build(id) ==
  /\ calls[id].pc = "build"
  /\ IF build_raises(lists[local(id)])
       THEN /\ calls' = [calls EXCEPT ![id].pc = "raised"]
            /\ UNCHANGED buffers
       ELSE /\ calls' = [calls EXCEPT ![id].pc = "return"]
            /\ buffers' = [buffers EXCEPT ![local(id)] = lists[local(id)]]
  /\ UNCHANGED << copy, logo_path, lists >>
  /\ UNCHANGED pdf_vars
  /\ UNCHANGED analysis_vars
  /\ UNCHANGED << users, request_session >>

\* buffer.seek(0); return buffer.getvalue()
Return(id) ==
  /\ calls[id].pc = "return"
  /\ calls' = [calls EXCEPT ![id].pc = "done", ![id].result = buffers[local(id)]]
  /\ UNCHANGED << copy, logo_path, lists, buffers >>
  /\ UNCHANGED pdf_vars
  /\ UNCHANGED analysis_vars
  /\ UNCHANGED << users, request_session >>

NextConcurrent ==
  \/ \E id \in CallIds : Call(id)
  \/ \E id \in CallIds : Extend(id)
  \/ \E id \in CallIds : Build(id)
  \/ \E id \in CallIds : Return(id)

SpecConcurrent == InitConcurrent /\ [][NextConcurrent]_vars

-----------------------------------------------------------------------------
(* The analysis flows: the dashboard's submit handler                      *)
(* (ui/pages/analysis.py), the POST /dentist/analyze route                 *)
(* (app/routes/dentist.py) and the three functions that call the model     *)
(* API (src/ai_engine.py, src/report_generator.py).                        *)

Anonymous ==
  << "A", "n", "o", "n", "y", "m", "o", "u", "s" >>

\* Python's None, the default of dict.get
None == << "None" >>

\* datetime.now().strftime("%Y-%m-%d %H:%M:%S")
ResultTimestamp ==
  << "2", "0", "2", "6", "-", "1", "1", "-", "0", "4", " ", "0", "9", ":", "3", "0", ":",
     "0", "0" >>

\* the functions that call client.chat.completions.create
ModelCallers == {"analyze_images", "generate_detailed_report", "generate_summary_report"}

\* the function whose API request raises, if any
ApiFailures == {"none"} \cup ModelCallers

\* response.choices[0].message.content of a request that succeeded
answer(by) == << by >>

\* the patient fields analyze_images puts into its prompt
engine_prompt(info) ==
  [age |-> get(info, "age", None),
   gender |-> get(info, "gender", None),
   complaint |-> get(info, "complaint", None),
   medical_history |-> get(info, "medical_history", None)]

\* the patient fields and the analysis the report prompts carry
report_prompt(analysis, info) ==
  [name |-> get(info, "name", None),
   age |-> get(info, "age", None),
   gender |-> get(info, "gender", None),
   complaint |-> get(info, "complaint", None),
   medical_history |-> get(info, "medical_history", None),
   analysis |-> analysis]

\* one call of self.client.chat.completions.create
create(by, images, sent, failing) ==
  [by |-> by, images |-> images, sent |-> sent,
   outcome |-> IF failing = by THEN "error" ELSE "ok"]

\* what a call of one of the three functions did: the API attempts it made,
\* the exception it raised ("none" when it returned) and the text it returned
completed(attempts, error) ==
  LET request == attempts[Len(attempts)]
  IN  [attempts |-> attempts,
       raised |-> IF request.outcome = "ok" THEN "none" ELSE error,
       value |-> IF request.outcome = "ok" THEN answer(request.by) ELSE <<>>]

\* analyze_images with a second attempt after a failed one
analyze_images_retrying(images, info, failing) ==
  LET request == create("analyze_images", images, engine_prompt(info), failing)
  IN  completed(IF request.outcome = "ok" THEN << request >> ELSE << request, request >>,
                "AIEngineError")

\* DentalAIEngine.analyze_images
analyze_images(images, info, failing) ==
  completed(<< create("analyze_images", images, engine_prompt(info), failing) >>,
            "AIEngineError")

\* ReportGenerator.generate_detailed_report
generate_detailed_report(analysis, info, failing) ==
  completed(<< create("generate_detailed_report", 0,
                      report_prompt(analysis, info), failing) >>,
            "ReportGeneratorError")

\* ReportGenerator.generate_summary_report
generate_summary_report(analysis, info, failing) ==
  completed(<< create("generate_summary_report", 0,
                      report_prompt(analysis, info), failing) >>,
            "ReportGeneratorError")

\* the dashboard passes language=, date_format=, include_sections= and footer=
\* to the report generator held in the session; a generator whose methods take
\* no such keywords (ReportGenerator of src/report_generator.py) raises
\* TypeError before it makes any request
with_options(accepts_options, call) ==
  IF accepts_options THEN call ELSE [attempts |-> <<>>, raised |-> "TypeError", value |-> <<>>]

\* ImageProcessor.process_batch: the images validate_image accepts, preprocessed
process_batch(images, valid) == IF valid THEN images ELSE 0

\* anonymize_patient_info with the setting ignored
anonymize_patient_info_never(anonymize, info) == info

\* anonymize_patient_info; anonymize is st.session_state["data_privacy"]["anonymize"]
anonymize_patient_info(anonymize, info) ==
  IF anonymize
    THEN [name |-> Anonymous,
          age |-> get(info, "age", None),
          gender |-> get(info, "gender", None),
          complaint |-> get(info, "complaint", None),
          medical_history |-> get(info, "medical_history", None)]
    ELSE info

\* what the user types into the dashboard's form
EnteredNames == {<<>>, JaneDoe}
PatientForms ==
  [name : EnteredNames, age : {34, 45}, gender : {Female}, complaint : {ToothPain},
   medical_history : {NoneText}]

\* history entries and Analysis rows kept at most
MaxHistory == 1
MaxRows == 1

\* the submit branch of render_analysis_page: the session state it leaves and
\* what it did. The form's widgets keep their values in the session under
\* their keys.
submit(ss, form, images, valid, accepts_options, failing) ==
  LET widgets == [ss EXCEPT !.patient_name = form.name]
      anonymize == ss.data_privacy.anonymize
      patient_info_to_use == anonymize_patient_info(anonymize, form)
      processed_images == process_batch(images, valid)
      analysis == analyze_images(processed_images, patient_info_to_use, failing)
      detailed_report ==
        with_options(accepts_options,
                     generate_detailed_report(analysis.value, patient_info_to_use, failing))
      summary_report ==
        with_options(accepts_options,
                     generate_summary_report(analysis.value, patient_info_to_use, failing))
      results == [timestamp |-> ResultTimestamp,
                  patient_info |-> patient_info_to_use,
                  raw_analysis |-> analysis.value,
                  detailed_report |-> detailed_report.value,
                  summary_report |-> summary_report.value]
      Shown(attempts, error) ==
        [session_state |-> widgets,
         last |-> Handled("submit", form, anonymize, attempts, error, "st.error")]
  IN  IF images = 0 THEN Shown(<<>>, "no image")
      ELSE IF form.name = <<>> THEN Shown(<<>>, "no patient name")
      ELSE IF analysis.raised # "none" THEN Shown(analysis.attempts, analysis.raised)
      ELSE IF detailed_report.raised # "none"
        THEN Shown(analysis.attempts \o detailed_report.attempts, detailed_report.raised)
      ELSE IF summary_report.raised # "none"
        THEN Shown(analysis.attempts \o detailed_report.attempts \o summary_report.attempts,
                   summary_report.raised)
      ELSE [session_state |->
              [widgets EXCEPT
                 !.current_analysis = results,
                 !.history = Append(@, [timestamp |-> results.timestamp,
                                        patient |-> patient_info_to_use.name,
                                        results |-> results])],
            last |-> Handled("submit", form, anonymize,
                             analysis.attempts \o detailed_report.attempts
                               \o summary_report.attempts,
                             "none", "st.success")]

RouteForms == {FullPatient}

\* the route with the Analysis row added before the model is called
analyze_row_first(rows, user, form, valid, failing) ==
  LET analysis == analyze_images(process_batch(1, valid), form, failing)
  IN  [analyses |-> Append(rows, [id |-> Len(rows) + 1, user_id |-> user.id,
                                  patient_name |-> form.name, patient_age |-> form.age,
                                  analysis_result |-> analysis.value]),
       last |-> Handled("analyze", form, FALSE, analysis.attempts, analysis.raised,
                        IF analysis.raised = "none" THEN "302 /dentist" ELSE "exception")]

\* POST /dentist/analyze: the Analysis table it leaves and what it did; an
\* exception of analyze_images leaves the handler before db.add
analyze(rows, user, form, valid, failing) ==
  LET info == [name |-> form.name, age |-> form.age, gender |-> form.gender,
                       complaint |-> form.complaint,
                       medical_history |-> form.medical_history]
      analysis == analyze_images(process_batch(1, valid), info, failing)
  IN  IF user = NoUser \/ user_type(user) # "dentist"
        THEN [analyses |-> rows,
              last |-> Handled("analyze", form, FALSE, <<>>, "none", "302 /")]
      ELSE IF analysis.raised # "none"
        THEN [analyses |-> rows,
              last |-> Handled("analyze", form, FALSE, analysis.attempts, analysis.raised,
                               "exception")]
      ELSE [analyses |->
              Append(rows, [id |-> Len(rows) + 1,
                            user_id |-> user.id,
                            patient_name |-> form.name,
                            patient_age |-> form.age,
                            patient_gender |-> form.gender,
                            patient_complaint |-> form.complaint,
                            patient_medical_history |-> form.medical_history,
                            analysis_result |-> analysis.value]),
            last |-> Handled("analyze", form, FALSE, analysis.attempts, "none",
                             "302 /dentist")]

InitAnalysis ==
  /\ session_state = NoSession
  /\ analyses = <<>>
  /\ last = NoRequest
  /\ page = <<>>
  /\ users = << Superadmin, Dentist >>
  /\ request_session \in {EmptySession, login_user(EmptySession, Superadmin),
                         login_user(EmptySession, Dentist)}
  /\ copy = "none"
  /\ logo_path = NoLogo
  /\ calls = NoCalls
  /\ lists = [id \in CallIds |-> <<>>]
  /\ buffers = [id \in CallIds |-> <<>>]
  /\ pc = "input"
  /\ report_content = <<>>
  /\ sections = <<>>
  /\ scanned = <<>>
  /\ patient_info = NoPatient
  /\ clinic_name = <<>>
  /\ variant = "none"
  /\ now = <<>>
  /\ elements = <<>>
  /\ pages = <<>>
  /\ now2 = <<>>
  /\ elements2 = <<>>

\* the "Anonymize patient data in reports" checkbox of the settings page
SetAnonymize ==
  /\ \E checked \in BOOLEAN :
       /\ session_state' = [session_state EXCEPT !.data_privacy.anonymize = checked]
       /\ last' = Handled("settings", NoAnalysis, checked, <<>>, "none", "none")
  /\ UNCHANGED analyses
  /\ page' = <<>>
  /\ UNCHANGED << pdf_vars, copy, logo_path, concurrent_vars, users,
               request_session >>

\* the "Clear analysis history" button of the settings page
ClearHistory ==
  /\ session_state' = [session_state EXCEPT !.history = <<>>]
  /\ last' = Handled("settings", NoAnalysis, session_state.data_privacy.anonymize,
                     <<>>, "none", "History cleared!")
  /\ UNCHANGED analyses
  /\ page' = <<>>
  /\ UNCHANGED << pdf_vars, copy, logo_path, concurrent_vars, users,
               request_session >>

\* the form of the analysis page is submitted
Submit ==
  /\ Len(session_state.history) < MaxHistory
  /\ \E form \in PatientForms, images \in 0..1, valid \in BOOLEAN,
        accepts_options \in BOOLEAN, failing \in ApiFailures :
       LET done == submit(session_state, form, images, valid, accepts_options, failing)
       IN  /\ session_state' = done.session_state
           /\ last' = done.last
  /\ UNCHANGED analyses
  /\ page' = <<>>
  /\ UNCHANGED << pdf_vars, copy, logo_path, concurrent_vars, users,
               request_session >>

\* POST /dentist/analyze
Analyze ==
  /\ Len(analyses) < MaxRows
  /\ \E form \in RouteForms, valid \in BOOLEAN, failing \in ApiFailures :
       LET done == analyze(analyses, get_current_user(request_session, users),
                           form, valid, failing)
       IN  /\ analyses' = done.analyses
           /\ last' = done.last
  /\ UNCHANGED session_state
  /\ page' = <<>>
  /\ UNCHANGED << pdf_vars, copy, logo_path, concurrent_vars, users,
               request_session >>

\* a caller's view of a call of one of the three functions
Called(by, patient, call) ==
  Handled(by, patient, FALSE, call.attempts, call.raised,
          IF call.raised = "none" THEN "returned" ELSE "raised")

\* a call of DentalAIEngine.analyze_images
AnalyzeImages ==
  /\ \E patient \in PatientInfos, failing \in ApiFailures :
       last' = Called("analyze_images", patient, analyze_images(1, patient, failing))
  /\ UNCHANGED << session_state, analyses >>
  /\ page' = <<>>
  /\ UNCHANGED << pdf_vars, copy, logo_path, concurrent_vars, users,
               request_session >>

\* a call of ReportGenerator.generate_detailed_report
GenerateDetailedReport ==
  /\ \E patient \in PatientInfos, failing \in ApiFailures :
       last' = Called("generate_detailed_report", patient,
                      generate_detailed_report(answer("analyze_images"), patient, failing))
  /\ UNCHANGED << session_state, analyses >>
  /\ page' = <<>>
  /\ UNCHANGED << pdf_vars, copy, logo_path, concurrent_vars, users,
               request_session >>

\* a call of ReportGenerator.generate_summary_report
GenerateSummaryReport ==
  /\ \E patient \in PatientInfos, failing \in ApiFailures :
       last' = Called("generate_summary_report", patient,
                      generate_summary_report(answer("analyze_images"), patient, failing))
  /\ UNCHANGED << session_state, analyses >>
  /\ page' = <<>>
  /\ UNCHANGED << pdf_vars, copy, logo_path, concurrent_vars, users,
               request_session >>

\* render_history_page: one expander per history entry, newest first, with its
\* label and what is written inside it
render_history_page(ss) ==
  LET history == ss.history
      anonymize == ss.data_privacy.anonymize
  IN  [k \in 1..Len(history) |->
         LET entry == history[Len(history) + 1 - k]
         IN  [patient_label |-> IF ~anonymize THEN entry.patient ELSE Anonymous,
              timestamp |-> entry.timestamp,
              summary_report |-> entry.results.summary_report,
              detailed_report |-> entry.results.detailed_report,
              patient_info |-> entry.results.patient_info,
              raw_analysis |-> entry.results.raw_analysis]]

\* the history page is opened
RenderHistoryPage ==
  /\ page' = render_history_page(session_state)
  /\ last' = Handled("history", NoAnalysis, session_state.data_privacy.anonymize,
                     <<>>, "none",
                     IF session_state.history = <<>> THEN "st.info" ELSE "st.expander")
  /\ UNCHANGED << session_state, analyses >>
  /\ UNCHANGED << pdf_vars, copy, logo_path, concurrent_vars, users,
               request_session >>

NextAnalysis ==
  \/ SetAnonymize
  \/ ClearHistory
  \/ Submit
  \/ Analyze
  \/ AnalyzeImages
  \/ GenerateDetailedReport
  \/ GenerateSummaryReport
  \/ RenderHistoryPage

SpecAnalysis == InitAnalysis /\ [][NextAnalysis]_vars

-----------------------------------------------------------------------------
(* The FastAPI application: login and logout (app/routes/auth.py,          *)
(* app/auth.py), the admin routes (app/routes/admin.py) and the dentist    *)
(* routes (app/routes/dentist.py) over the users and analyses tables.      *)

\* the names a user can be created or logged in under
CreatedUsernames == {"alice", "bob"}
Usernames == {"superadmin"} \cup CreatedUsernames

\* the passwords typed into the login form
Passwords == {"ChangeMe123!", "secret", "guess"}

\* templates.TemplateResponse / RedirectResponse / StreamingResponse
Responded(handler, request, response) ==
  Handled(handler, request, FALSE, <<>>, "none", response)

\* authenticate_user without bcrypt.verify: the user of that name, whatever
\* the password
authenticate_user_unverified(rows, username, password) ==
  IF \E n \in 1..Len(rows) : rows[n].username = username
    THEN rows[CHOOSE n \in 1..Len(rows) : rows[n].username = username]
    ELSE NoUser

\* authenticate_user: the user of that name if the password verifies against
\* the stored hash, else None
authenticate_user(rows, username, password) ==
  IF \E n \in 1..Len(rows) : /\ rows[n].username = username
                             /\ bcrypt_verify(password, rows[n].password_hash)
    THEN rows[CHOOSE n \in 1..Len(rows) : rows[n].username = username]
    ELSE NoUser

\* logout_user: request.session.clear()
logout_user(session) == EmptySession

\* POST /login: the session it leaves and its response
login_post(rows, session, username, password) ==
  LET user == authenticate_user(rows, username, password)
      request == [username |-> username, password |-> password]
  IN  IF user # NoUser
        THEN [request_session |-> login_user(session, user),
              last |-> Responded("login_post", request, "302 /")]
        ELSE [request_session |-> session,
              last |-> Responded("login_post", request, "login.html")]

\* POST /admin/create_user: the users table it leaves and its response;
\* username is unique, so db.commit() raises for a name that is taken
create_user(rows, user, username, password, type) ==
  LET request == [username |-> username, password |-> password, user_type |-> type]
  IN  IF user = NoUser \/ ~user.is_admin
        THEN [users |-> rows, last |-> Responded("create_user", request, "302 /")]
      ELSE IF \E n \in 1..Len(rows) : rows[n].username = username
        THEN [users |-> rows,
              last |-> Handled("create_user", request, FALSE, <<>>, "IntegrityError",
                               "exception")]
      ELSE [users |-> Append(rows, [id |-> Len(rows) + 1,
                                    username |-> username,
                                    password_hash |-> bcrypt_hash(password),
                                    is_admin |-> (type = "admin"),
                                    user_type |-> type,
                                    openai_api_key |-> "None"]),
            last |-> Responded("create_user", request, "302 /admin")]

\* bind_api_key without the test of the requester
bind_api_key_unchecked(rows, user, user_id, api_key) ==
  [users |-> [n \in 1..Len(rows) |->
                IF rows[n].id = user_id
                  THEN [rows[n] EXCEPT !.openai_api_key = api_key] ELSE rows[n]],
   last |-> Responded("bind_api_key", [user_id |-> user_id, api_key |-> api_key],
                      "302 /admin")]

\* POST /admin/bind_api_key: the users table it leaves and its response
bind_api_key(rows, user, user_id, api_key) ==
  LET request == [user_id |-> user_id, api_key |-> api_key]
  IN  IF user = NoUser \/ ~user.is_admin
        THEN [users |-> rows, last |-> Responded("bind_api_key", request, "302 /")]
        ELSE [users |-> [n \in 1..Len(rows) |->
                           IF rows[n].id = user_id
                             THEN [rows[n] EXCEPT !.openai_api_key = api_key]
                             ELSE rows[n]],
              last |-> Responded("bind_api_key", request, "302 /admin")]

\* GET /admin: its response and the users it lists
admin_panel(rows, user) ==
  IF user = NoUser \/ ~user.is_admin
    THEN [page |-> <<>>, last |-> Responded("admin_panel", NoAnalysis, "302 /")]
    ELSE [page |-> rows, last |-> Responded("admin_panel", NoAnalysis, "admin.html")]

\* GET /dentist: its response and the analyses it lists
dentist_dashboard(rows, user) ==
  IF user = NoUser \/ user_type(user) # "dentist"
    THEN [page |-> <<>>, last |-> Responded("dentist_dashboard", NoAnalysis, "302 /")]
    ELSE [page |-> SelectSeq(rows, LAMBDA row : row.user_id = user.id),
          last |-> Responded("dentist_dashboard", NoAnalysis, "dentist.html")]

\* what download_report streams for a row
report_pdf(row, t) ==
  [filename |-> row.id,
   elements |-> summary_elements(App, NoLogo,
                                 [name |-> row.patient_name,
                                  age |-> row.patient_age,
                                  gender |-> row.patient_gender,
                                  complaint |-> row.patient_complaint,
                                  medical_history |-> row.patient_medical_history],
                                 row.analysis_result, DefaultClinicName, t)]

\* download_report with the row looked up by its id alone
download_report_of_anyone(rows, user, analysis_id, t) ==
  LET request == [analysis_id |-> analysis_id]
      found == SelectSeq(rows, LAMBDA row : row.id = analysis_id)
  IN  IF user = NoUser \/ user_type(user) # "dentist"
        THEN [page |-> <<>>, last |-> Responded("download_report", request, "302 /")]
      ELSE IF found = <<>>
        THEN [page |-> <<>>, last |-> Responded("download_report", request, "302 /dentist")]
      ELSE [page |-> report_pdf(found[1], t),
            last |-> Responded("download_report", request, "application/pdf")]

\* GET /dentist/report/{analysis_id}: its response and the PDF it streams
download_report(rows, user, analysis_id, t) ==
  LET request == [analysis_id |-> analysis_id]
      found == SelectSeq(rows, LAMBDA row : row.id = analysis_id /\ row.user_id = user.id)
  IN  IF user = NoUser \/ user_type(user) # "dentist"
        THEN [page |-> <<>>, last |-> Responded("download_report", request, "302 /")]
      ELSE IF found = <<>>
        THEN [page |-> <<>>, last |-> Responded("download_report", request, "302 /dentist")]
      ELSE [page |-> report_pdf(found[1], t),
            last |-> Responded("download_report", request, "application/pdf")]

InitApp ==
  /\ users = << Superadmin >>
  /\ request_session = EmptySession
  /\ session_state = NoSession
  /\ analyses = <<>>
  /\ last = NoRequest
  /\ page = <<>>
  /\ copy = "none"
  /\ logo_path = NoLogo
  /\ calls = NoCalls
  /\ lists = [id \in CallIds |-> <<>>]
  /\ buffers = [id \in CallIds |-> <<>>]
  /\ pc = "input"
  /\ report_content = <<>>
  /\ sections = <<>>
  /\ scanned = <<>>
  /\ patient_info = NoPatient
  /\ clinic_name = <<>>
  /\ variant = "none"
  /\ now = <<>>
  /\ elements = <<>>
  /\ pages = <<>>
  /\ now2 = <<>>
  /\ elements2 = <<>>

\* POST /login
LoginPost ==
  /\ \E username \in Usernames, password \in Passwords :
       LET done == login_post(users, request_session, username, password)
       IN  /\ request_session' = done.request_session
           /\ last' = done.last
  /\ page' = <<>>
  /\ UNCHANGED << users, analyses, session_state >>
  /\ UNCHANGED << pdf_vars, copy, logo_path, concurrent_vars >>

\* GET /logout
Logout ==
  /\ request_session' = logout_user(request_session)
  /\ last' = Responded("logout", NoAnalysis, "302 /")
  /\ page' = <<>>
  /\ UNCHANGED << users, analyses, session_state >>
  /\ UNCHANGED << pdf_vars, copy, logo_path, concurrent_vars >>

\* GET /admin
AdminPanel ==
  /\ LET done == admin_panel(users, get_current_user(request_session, users))
     IN  /\ page' = done.page
         /\ last' = done.last
  /\ UNCHANGED << users, request_session, analyses, session_state >>
  /\ UNCHANGED << pdf_vars, copy, logo_path, concurrent_vars >>

\* POST /admin/create_user
CreateUser ==
  /\ \E username \in CreatedUsernames, password \in {"secret"},
        type \in {"dentist", "admin"} :
       LET done == create_user(users, get_current_user(request_session, users),
                               username, password, type)
       IN  /\ users' = done.users
           /\ last' = done.last
  /\ page' = <<>>
  /\ UNCHANGED << request_session, analyses, session_state >>
  /\ UNCHANGED << pdf_vars, copy, logo_path, concurrent_vars >>

\* POST /admin/bind_api_key
BindApiKey ==
  /\ \E user_id \in 1..Cardinality(Usernames), api_key \in {"sk-1"} :
       LET done == bind_api_key(users, get_current_user(request_session, users),
                                user_id, api_key)
       IN  /\ users' = done.users
           /\ last' = done.last
  /\ page' = <<>>
  /\ UNCHANGED << request_session, analyses, session_state >>
  /\ UNCHANGED << pdf_vars, copy, logo_path, concurrent_vars >>

\* GET /dentist
DentistDashboard ==
  /\ LET done == dentist_dashboard(analyses, get_current_user(request_session, users))
     IN  /\ page' = done.page
         /\ last' = done.last
  /\ UNCHANGED << users, request_session, analyses, session_state >>
  /\ UNCHANGED << pdf_vars, copy, logo_path, concurrent_vars >>

\* GET /dentist/report/{analysis_id}
DownloadReport ==
  /\ \E analysis_id \in 1..(MaxRows + 1), t \in Clock :
       LET done == download_report(analyses, get_current_user(request_session, users),
                                   analysis_id, t)
       IN  /\ page' = done.page
           /\ last' = done.last
  /\ UNCHANGED << users, request_session, analyses, session_state >>
  /\ UNCHANGED << pdf_vars, copy, logo_path, concurrent_vars >>

NextApp ==
  \/ LoginPost
  \/ Logout
  \/ AdminPanel
  \/ CreateUser
  \/ BindApiKey
  \/ Analyze
  \/ DentistDashboard
  \/ DownloadReport

SpecApp == InitApp /\ [][NextApp]_vars

-----------------------------------------------------------------------------
(* Vocabulary of the properties *)

\* _parse_report_sections has returned (called alone or from a generator)
Parsed == pc \in {"parsed", "generated"}

\* the lines of the report text
Lines == split(report_content, << "\n" >>)

\* a heading line: its first non-space character is '#'
HeadingLine(line) ==
  LET t == lstrip(line, Whitespace) IN t # <<>> /\ Head(t) = "#"

\* a heading line with its leading '#' characters and its surrounding whitespace
\* removed, and nothing else
HeadingText(line) ==
  strip(lstrip(lstrip(line, Whitespace), {"#"}), Whitespace)

\* the indices, in order, at which a sequence of booleans is TRUE
IndicesOfTrue(flags) ==
  SelectSeq([i \in 1..Len(flags) |-> i], LAMBDA i : flags[i])

\* the indices of the heading lines of the report text
HeadingIndices == IndicesOfTrue([i \in 1..Len(Lines) |-> HeadingLine(Lines[i])])

\* the indices of the lines the copy that ran took for headings
RecognisedIndices == IndicesOfTrue([i \in 1..Len(Lines) |-> is_header(copy, Lines[i])])

\* the indices of the section headings among the document's elements
SectionHeadingIndices ==
  IndicesOfTrue([i \in 1..Len(elements) |->
                   elements[i].kind = "Paragraph" /\ elements[i].style = "SectionHeading"])

\* the lines after heading number k of hs, up to the next heading or the end
BodyLines(lines, hs, k) ==
  SubSeq(lines, hs[k] + 1, IF k < Len(hs) THEN hs[k + 1] - 1 ELSE Len(lines))

-----------------------------------------------------------------------------
(* C1: an input in which no line is a heading line parses to the single    *)
(* entry "Findings" whose value is the input verbatim; the empty string    *)
(* parses to {"Findings": ""}.                                             *)
C1_NoHeadingIsFindingsVerbatim ==
  (Parsed /\ \A i \in 1..Len(Lines) : ~HeadingLine(Lines[i]))
    => sections = << << Findings, report_content >> >>

\* a text of three lines, one of them blank, none a heading, has been parsed
C1_Witness ==
  /\ pc = "parsed"
  /\ Len(Lines) = 3
  /\ \E i \in 1..3 : Lines[i] = <<>>
  /\ \E i \in 1..3 : Lines[i] # <<>>
  /\ \A i \in 1..3 : ~HeadingLine(Lines[i])
  /\ sections = << << Findings, report_content >> >>

-----------------------------------------------------------------------------
(* C2, as stated: an input with N >= 1 heading lines, each followed by at  *)
(* least one body line, parses to exactly N entries, in heading order,     *)
(* each body being the lines between its heading and the next heading or   *)
(* the end of the input. It is stated here for the texts whose heading     *)
(* lines all begin with '#', which both copies recognise as headings.      *)
C2_AsStated ==
  LET hs == HeadingIndices
  IN  (/\ Parsed
       /\ Len(hs) >= 1
       /\ \A k \in 1..Len(hs) : startswith(Lines[hs[k]], << "#" >>)
       /\ \A k \in 1..Len(hs) : BodyLines(Lines, hs, k) # <<>>)
        => /\ Len(sections) = Len(hs)
           /\ \A k \in 1..Len(hs) :
                sections[k][2] = join(<< "\n" >>, BodyLines(Lines, hs, k))

(* C2, amended: when the first line is a heading, the N heading lines the  *)
(* copy recognises have pairwise distinct titles and each is followed by   *)
(* at least one line, the result has exactly N entries, in heading order,  *)
(* entry k holding the title of heading k and the lines between heading k  *)
(* and the next heading (or the end of the input) joined by newlines.      *)
C2_DistinctHeadingsNoPreamble ==
  LET hs == RecognisedIndices
  IN  (/\ Parsed
       /\ Len(hs) >= 1
       /\ hs[1] = 1
       /\ \A k \in 1..Len(hs) : BodyLines(Lines, hs, k) # <<>>
       /\ \A j, k \in 1..Len(hs) :
            j # k => section_title(copy, Lines[hs[j]]) # section_title(copy, Lines[hs[k]]))
        => /\ Len(sections) = Len(hs)
           /\ \A k \in 1..Len(hs) :
                /\ sections[k][1] = section_title(copy, Lines[hs[k]])
                /\ sections[k][2] = join(<< "\n" >>, BodyLines(Lines, hs, k))

\* two headings with different titles, each with a body, have been parsed into
\* two entries
C2_Witness ==
  LET hs == RecognisedIndices
  IN  /\ pc = "parsed"
      /\ Len(hs) = 2
      /\ hs[1] = 1
      /\ \A k \in 1..2 : BodyLines(Lines, hs, k) # <<>>
      /\ section_title(copy, Lines[hs[1]]) # section_title(copy, Lines[hs[2]])
      /\ Len(sections) = 2

-----------------------------------------------------------------------------
(* C3, as stated: a line is treated as a heading exactly when its first    *)
(* non-space character is '#', and the title it opens is the line with its *)
(* leading '#' characters and surrounding whitespace removed and nothing   *)
(* else removed. Stated on the result: when the text's only heading line   *)
(* is its first line and a body line follows, the one entry has that title.*)
C3_HeadingRecognitionAndTitle ==
  LET hs == HeadingIndices
  IN  /\ Parsed =>
           \A i \in 1..Len(Lines) :
             /\ is_header(copy, Lines[i]) <=> HeadingLine(Lines[i])
             /\ HeadingLine(Lines[i]) =>
                  section_title(copy, Lines[i]) = HeadingText(Lines[i])
      /\ (Parsed /\ hs = << 1 >> /\ Len(Lines) >= 2) =>
           Keys(sections) = << HeadingText(Lines[1]) >>

-----------------------------------------------------------------------------
(* C4: whenever the line scan ends with no section committed, the result   *)
(* is the single entry "Findings" mapped to the whole input, unchanged.    *)
C4_EmptyScanFallsBackToWholeInput ==
  (Parsed /\ scanned = <<>>) => sections = << << Findings, report_content >> >>

\* a text of two lines has been scanned without committing a section
C4_Witness ==
  /\ pc = "parsed"
  /\ scanned = <<>>
  /\ Len(Lines) = 2
  /\ sections = << << Findings, report_content >> >>

-----------------------------------------------------------------------------
(* C5: _parse_report_sections is total: on every input string, the empty   *)
(* string included, the call returns a mapping with at least one entry,    *)
(* each entry a title and a body that are strings.                         *)
C5_ParserTotal ==
  Parsed =>
    /\ Len(sections) >= 1
    /\ \A k \in 1..Len(sections) :
         /\ Len(sections[k]) = 2
         /\ \A j \in 1..2 : \A n \in 1..Len(sections[k][j]) :
              sections[k][j][n] \in Alphabet \cup {Findings[m] : m \in 1..Len(Findings)}

\* the empty string and a text of heading lines only have both an entry
C5_Witness ==
  /\ pc = "parsed"
  /\ report_content \in {<<>>, << "#", "\n", "#" >>}
  /\ Len(sections) = 1

-----------------------------------------------------------------------------
(* Vocabulary of the document properties *)

Generated == pc = "generated"

IsSectionHeading(e) == e.kind = "Paragraph" /\ e.style = "SectionHeading"

\* a section body with no paragraph that is non-blank after trimming
BlankBody(body) ==
  \A i \in 1..Len(split(body, << "\n", "\n" >>)) :
    strip(split(body, << "\n", "\n" >>)[i], Whitespace) = <<>>

\* an element of the approval block that no other block holds
IsSignaturePiece(e) ==
  \/ e.kind = "Table" /\ e.data = approval_options
  \/ e.kind = "Paragraph" /\ e.style = "SectionHeading" /\ e.text = ApprovalText
  \/ e.kind = "Paragraph" /\ e.style = "ReportText" /\ e.text = ConfirmText
  \/ e.kind = "Paragraph" /\ e.style = "ReportText" /\ e.text = NotesText
  \/ e.kind = "Paragraph" /\ e.style = "Footer" /\ e.text = DoctorsSignatureText
  \/ e.kind = "Paragraph" /\ e.style = "Footer" /\ e.text = DateText

\* the patient-information table: the first table of the document
PatientTable ==
  elements[IndicesOfTrue([i \in 1..Len(elements) |-> elements[i].kind = "Table"])[1]]

-----------------------------------------------------------------------------
(* C6: the findings block renders exactly one heading per entry of the     *)
(* parsed mapping, in the mapping's order (after the "Patient Information" *)
(* heading and before the summary's "Approval" heading), and an entry      *)
(* whose body has no non-blank paragraph still gets its heading, followed  *)
(* directly by the spacer and no text block.                               *)
C6_OneHeadingPerSectionInOrder ==
  Generated =>
    LET hs == SectionHeadingIndices
        after == IF variant = "summary" THEN 1 ELSE 0
    IN  /\ Len(hs) = 1 + Len(sections) + after
        /\ \A k \in 1..Len(sections) :
             /\ elements[hs[k + 1]].text = sections[k][1]
             /\ BlankBody(sections[k][2]) =>
                  elements[hs[k + 1] + 1] = Spacer(1, 10)
             /\ ~BlankBody(sections[k][2]) =>
                  /\ elements[hs[k + 1] + 1].kind = "Paragraph"
                  /\ elements[hs[k + 1] + 1].style = "ReportText"

\* a document of two sections with different titles, one of them without a
\* non-blank paragraph, has been generated
C6_Witness ==
  /\ Generated
  /\ Len(sections) = 2
  /\ sections[1][1] # sections[2][1]
  /\ BlankBody(sections[2][2])
  /\ Len(SectionHeadingIndices) >= 3

-----------------------------------------------------------------------------
(* C7: in a document of either generator and of any number of pages, the   *)
(* footer callback has run on every page, the first and the later ones,    *)
(* and has drawn the fixed AI-generated-report disclaimer and that page's  *)
(* number.                                                                 *)
C7_DisclaimerOnEveryPage ==
  Generated =>
    /\ Len(pages) >= 1
    /\ \A p \in 1..Len(pages) :
         /\ \E i \in 1..Len(pages[p]) :
              pages[p][i].op = "drawString" /\ pages[p][i].text = FooterDisclaimer
         /\ \E i \in 1..Len(pages[p]) :
              pages[p][i].op = "drawRightString"
                /\ pages[p][i].text = PagePrefix \o str(p)

\* a detailed document of more than one page has been generated
C7_Witness ==
  /\ Generated
  /\ variant = "detailed"
  /\ Len(pages) >= 2
  /\ \E i \in 1..Len(pages[2]) : pages[2][i].text = FooterDisclaimer

-----------------------------------------------------------------------------
(* C8, as stated: the patient-information table always has the rows Name,  *)
(* Age, Gender, Primary Complaint, Medical History, and a field that is    *)
(* missing from the patient info or is an empty string is rendered as      *)
(* "N/A", never as an empty cell.                                          *)
C8_MissingOrEmptyFieldIsNA ==
  Generated =>
    LET rows == PatientTable.data
        Shown(field) ==
          CASE field = "name" -> rows[1][2]
            [] field = "age" -> rows[2][2]
            [] field = "gender" -> rows[3][2]
            [] field = "complaint" -> rows[4][2]
            [] field = "medical_history" -> rows[5][2]
    IN  /\ [i \in 1..Len(rows) |-> rows[i][1]]
             = << NameLabel, AgeLabel, GenderLabel, ComplaintLabel, MedicalHistoryLabel >>
        /\ \A i \in 1..Len(rows) : rows[i][2] # <<>>
        /\ \A field \in {"name", "age", "gender", "complaint", "medical_history"} :
             field \notin DOMAIN patient_info => Shown(field) = NA
        /\ \A field \in {"name", "gender", "complaint", "medical_history"} :
             (field \in DOMAIN patient_info /\ patient_info[field] = <<>>)
               => Shown(field) = NA

-----------------------------------------------------------------------------
(* C9, as stated: a Summary document generated with include-signature-     *)
(* block = false contains no piece of the approval block (the three option *)
(* rows, the notes area, the "Doctor's Signature" and "Date" lines). The   *)
(* generators take patient_info, report_content and clinic_name and no     *)
(* option, so whatever the caller wants of the option the call, and the    *)
(* document, are the same.                                                 *)
C9_NoSignatureWhenOptionOff ==
  \A options \in [include_signature_block : BOOLEAN] :
    (Generated /\ variant = "summary" /\ ~options.include_signature_block)
      => \A i \in 1..Len(elements) : ~IsSignaturePiece(elements[i])

-----------------------------------------------------------------------------
(* C10: both generators emit their blocks in one fixed order: the header   *)
(* (the logo when there is one, the clinic name, the generation            *)
(* timestamp), the variant's title line, the patient-information block,    *)
(* the findings block, and the variant's tail: the approval block for the  *)
(* summary, the verification disclaimer and no approval block for the      *)
(* detailed report.                                                        *)
C10_BlocksInFixedOrder ==
  Generated =>
    LET e == elements
        h == IF e[1].kind = "Image" THEN 2 ELSE 0
        tail == IF variant = "summary" THEN 12 ELSE 2
        f1 == h + 10
        t1 == Len(e) - tail + 1
    IN  /\ (e[1].kind = "Image") <=> (logo_path # NoLogo /\ path_exists(logo_path))
        /\ Len(e) >= h + 9 + tail
        /\ e[h + 1] = Paragraph(clinic_name, "ReportTitle")
        /\ e[h + 3] = Paragraph(ReportGeneratedPrefix \o now, "Normal")
        /\ e[h + 5] = Paragraph(IF variant = "summary" THEN SummaryTitle
                                                       ELSE DetailedTitle,
                                "ReportTitle")
        /\ e[h + 7] = Paragraph(PatientInformationText, "SectionHeading")
        /\ e[h + 8].kind = "Table"
        /\ e[h + 8].data[1][1] = NameLabel
        /\ e[f1] = Paragraph(sections[1][1], "SectionHeading")
        /\ \A i \in f1..(t1 - 1) :
             \/ e[i].kind = "Paragraph" /\ e[i].style \in {"SectionHeading", "ReportText"}
             \/ e[i] = Spacer(1, 10)
        /\ Cardinality({i \in f1..(t1 - 1) : IsSectionHeading(e[i])}) = Len(sections)
        /\ variant = "summary" =>
             /\ e[t1] = Paragraph(ApprovalText, "SectionHeading")
             /\ e[t1 + 3] = Table(approval_options)
             /\ e[t1 + 5] = Paragraph(NotesText, "ReportText")
             /\ e[t1 + 8] = Paragraph(DoctorsSignatureText, "Footer")
             /\ e[Len(e)] = Paragraph(DateText, "Footer")
        /\ variant = "detailed" =>
             /\ e[t1] = Spacer(1, 20)
             /\ e[Len(e)] = Paragraph(DetailedDisclaimer, "Footer")
             /\ \A i \in 1..Len(e) : ~IsSignaturePiece(e[i])

\* a detailed report with a logo and two sections has been generated
C10_Witness ==
  /\ Generated
  /\ variant = "detailed"
  /\ elements[1].kind = "Image"
  /\ Len(sections) = 2
  /\ elements[Len(elements)].text = DetailedDisclaimer

-----------------------------------------------------------------------------
(* Vocabulary of the parser's commits. A heading line is here a line the   *)
(* copy that ran takes for a heading (RecognisedIndices).                  *)

\* the lines before the first heading
PreambleLines ==
  LET hs == RecognisedIndices
      lines == Lines
  IN  SubSeq(lines, 1, IF hs = <<>> THEN Len(lines) ELSE hs[1] - 1)

\* the <<title, body>> pairs the scan commits, in the order it commits them:
\* the text before the first heading under "Findings", then every heading that
\* has at least one line after it
Commits ==
  LET hs == RecognisedIndices
      lines == Lines
      preamble == PreambleLines
      pre == IF preamble # <<>>
               THEN << << Findings, join(<< "\n" >>, preamble) >> >>
               ELSE <<>>
      bodies == [k \in 1..Len(hs) |-> BodyLines(lines, hs, k)]
      withBody == SelectSeq([k \in 1..Len(hs) |-> k], LAMBDA k : bodies[k] # <<>>)
  IN  pre \o [n \in 1..Len(withBody) |->
                << section_title(copy, lines[hs[withBody[n]]]),
                   join(<< "\n" >>, bodies[withBody[n]]) >>]

-----------------------------------------------------------------------------
(* C17: a later section replaces an earlier one with the same title: the   *)
(* mapping holds one entry per committed title, at the position of the     *)
(* title's first commit and with the body of its last commit; no entry     *)
(* keeps the body of an earlier commit of that title.                      *)
C17_LaterSectionReplacesEarlier ==
  (Parsed /\ Commits # <<>>) =>
    LET cs == Commits
        firsts == SelectSeq([n \in 1..Len(cs) |-> n],
                            LAMBDA n : \A m \in 1..(n - 1) : cs[m][1] # cs[n][1])
        Last(t) == CHOOSE n \in 1..Len(cs) :
                     cs[n][1] = t /\ \A m \in (n + 1)..Len(cs) : cs[m][1] # t
    IN  /\ Len(sections) = Len(firsts)
        /\ \A k \in 1..Len(firsts) :
             /\ sections[k][1] = cs[firsts[k]][1]
             /\ sections[k][2] = cs[Last(cs[firsts[k]][1])][2]

\* text before the first heading and a later heading titled "Findings" have both
\* been committed, with different bodies: one entry, the later body
C17_Witness ==
  /\ pc = "parsed"
  /\ Len(Commits) = 2
  /\ Commits[1][1] = Findings
  /\ Commits[2][1] = Findings
  /\ Commits[1][2] # Commits[2][2]
  /\ PreambleLines # <<>>
  /\ sections = << << Findings, Commits[2][2] >> >>

-----------------------------------------------------------------------------
(* C18: a heading with no line at all between it and the next heading (or  *)
(* the end of the input) commits no entry: unless the same title is        *)
(* committed from elsewhere, the dict the scan leaves holds no entry under *)
(* its title. A heading followed by at least one line, even one blank      *)
(* line, does commit an entry under its title.                             *)
C18_BodylessHeadingCommitsNothing ==
  Parsed =>
    LET hs == RecognisedIndices
        Title(k) == section_title(copy, Lines[hs[k]])
    IN  \A k \in 1..Len(hs) :
          /\ BodyLines(Lines, hs, k) # <<>> => Title(k) \in {scanned[n][1] : n \in 1..Len(scanned)}
          /\ (/\ BodyLines(Lines, hs, k) = <<>>
              /\ \A c \in {Commits[n] : n \in 1..Len(Commits)} : c[1] # Title(k))
               => Title(k) \notin {scanned[n][1] : n \in 1..Len(scanned)}

\* a heading directly followed by another heading, which has one blank line
\* after it: only the second has an entry
C18_Witness ==
  LET hs == RecognisedIndices
  IN  /\ pc = "parsed"
      /\ hs = << 1, 2 >>
      /\ Len(Lines) = 3
      /\ Lines[3] = <<>>
      /\ section_title(copy, Lines[1]) # section_title(copy, Lines[2])
      /\ Keys(sections) = << section_title(copy, Lines[2]) >>

-----------------------------------------------------------------------------
(* C19: the "Findings" fallback is taken (the scan left the dict empty)    *)
(* if and only if every line of the input is a heading line; it is not     *)
(* taken for the empty string, and when it is taken the body returned is   *)
(* the input with its '#' heading lines in it.                             *)
C19_FallbackIffAllLinesHeadings ==
  Parsed =>
    /\ (scanned = <<>>) <=> (\A i \in 1..Len(Lines) : is_header(copy, Lines[i]))
    /\ report_content = <<>> => scanned # <<>>
    /\ scanned = <<>> =>
         /\ Len(sections) = 1
         /\ split(sections[1][2], << "\n" >>) = Lines
         /\ \A i \in 1..Len(Lines) : \E n \in 1..Len(Lines[i]) : Lines[i][n] = "#"

\* the src copy has taken the fallback on two heading lines, one of them indented
C19_Witness ==
  /\ pc = "parsed"
  /\ copy = Src
  /\ scanned = <<>>
  /\ Len(Lines) = 2
  /\ Head(Lines[2]) = " "
  /\ sections[1][1] = Findings

-----------------------------------------------------------------------------
(* C20, as stated: the two copies of _parse_report_sections return the     *)
(* same ordered mapping for every input: what the copy that ran returned   *)
(* is what the other copy returns for the same text.                       *)
C20_CopiesEquivalent ==
  Parsed =>
    sections = _parse_report_sections(IF copy = App THEN Src ELSE App, report_content)

-----------------------------------------------------------------------------
(* C11: generation is deterministic in its inputs: a second call of the    *)
(* same generator with the same patient info, report content, clinic name  *)
(* and logo hands doc.build a list of the same length that is equal to the *)
(* first call's list block by block, except for the "Report Generated"     *)
(* paragraph of the header, which carries each call's own clock reading;   *)
(* when both calls read the same minute the lists are equal.               *)
C11_SecondCallDiffersOnlyInTimestamp ==
  pc = "regenerated" =>
    /\ Len(elements2) = Len(elements)
    /\ \A i \in 1..Len(elements) :
         \/ elements2[i] = elements[i]
         \/ /\ elements[i] = Paragraph(ReportGeneratedPrefix \o now, "Normal")
            /\ elements2[i] = Paragraph(ReportGeneratedPrefix \o now2, "Normal")
    /\ Cardinality({i \in 1..Len(elements) : elements2[i] # elements[i]}) <= 1
    /\ now2 = now => elements2 = elements

\* a second call has run a minute after the first, with a logo and a report
\* text of two sections, and its list differs from the first call's
C11_Witness ==
  /\ pc = "regenerated"
  /\ now2 # now
  /\ elements2 # elements
  /\ logo_path = ClinicLogo
  /\ Len(sections) = 2

-----------------------------------------------------------------------------
(* C14, as stated: a logo reference that is absent, points to no file, or  *)
(* cannot be read as an image never fails generation: the call returns a   *)
(* complete document without the logo.                                     *)
C14_UnusableLogoNeverFailsGeneration ==
  (/\ pc \in {"generated", "failed"}
   /\ \/ logo_path = NoLogo
      \/ ~path_exists(logo_path)
      \/ ~image_readable(logo_path))
    => /\ pc = "generated"
       /\ elements # <<>>
       /\ \A i \in 1..Len(elements) : elements[i].kind # "Image"

-----------------------------------------------------------------------------
(* C15: concurrent generations are isolated: under every interleaving of   *)
(* two generate calls on one instance, the elements list of a call holds   *)
(* only blocks of that call (it is a prefix of the list the call builds    *)
(* when run alone), the buffer a call returns from holds its own document, *)
(* and a call that has returned has returned what it returns when run      *)
(* alone with its arguments and its clock reading; a call that raised      *)
(* raises when run alone.                                                  *)
C15_ConcurrentCallsIsolated ==
  \A id \in CallIds :
    LET call == calls[id]
        alone == generator_elements(call.variant, copy, logo_path, call.patient_info,
                                    call.report_content, call.clinic_name, call.now)
    IN  /\ call.pc = "header" => lists[id] = <<>>
        /\ (InFlight(id) /\ call.pc # "header") =>
             /\ Len(lists[id]) <= Len(alone)
             /\ lists[id] = SubSeq(alone, 1, Len(lists[id]))
        /\ call.pc \in {"build", "return"} => lists[id] = alone
        /\ call.pc = "return" => buffers[id] = alone
        /\ call.pc = "done" => call.result = alone /\ ~build_raises(alone)
        /\ call.pc = "raised" => build_raises(alone)

\* the second call was made while the first was in flight, with another
\* generator, patient and report text, and the first has returned while the
\* second is between two of its statements
C15_Witness ==
  /\ calls[1].pc = "done"
  /\ calls[1].result # <<>>
  /\ calls[2].overlapped
  /\ calls[2].pc = "findings"
  /\ calls[2].variant # calls[1].variant
  /\ calls[2].patient_info # calls[1].patient_info
  /\ calls[2].report_content # calls[1].report_content

-----------------------------------------------------------------------------
(* C12: when a model call fails during an analysis, the failure reaches    *)
(* the caller and the request leaves no record: every step of the route    *)
(* POST /dentist/analyze or of the dashboard submit in which an API        *)
(* attempt failed leaves the Analysis table, the session history and       *)
(* current_analysis as they were, and ends in the tagged error (raised out *)
(* of the route, shown by the dashboard).                                  *)
C12_FailedModelCallLeavesNoRecord ==
  [][(/\ last'.handler \in {"submit", "analyze"}
      /\ \E n \in 1..Len(last'.attempts) : last'.attempts[n].outcome = "error")
       => /\ analyses' = analyses
          /\ session_state'.history = session_state.history
          /\ session_state'.current_analysis = session_state.current_analysis
          /\ last'.error \in {"AIEngineError", "ReportGeneratorError"}
          /\ last'.response = (IF last'.handler = "analyze" THEN "exception" ELSE "st.error")
    ]_vars

\* a dashboard submit whose third model call failed, made while the session
\* held an earlier analysis: the earlier analysis is still the current one
C12_Witness ==
  /\ last.handler = "submit"
  /\ last.error = "ReportGeneratorError"
  /\ Len(last.attempts) = 3
  /\ last.attempts[3].outcome = "error"
  /\ session_state.history = <<>>
  /\ session_state.current_analysis # NoAnalysis
  /\ session_state.current_analysis.patient_info.age # last.request.age

-----------------------------------------------------------------------------
(* C13: analyze_images, generate_detailed_report and                       *)
(* generate_summary_report make exactly one API attempt per call; when the *)
(* attempt raises the caller gets the module's tagged error (AIEngineError *)
(* or ReportGeneratorError), and nothing is attempted again: within one    *)
(* request no function is attempted twice and no attempt follows a failed  *)
(* one.                                                                    *)
C13_OneAttemptTaggedErrorNoRetry ==
  /\ last.handler \in ModelCallers =>
       /\ Len(last.attempts) = 1
       /\ last.attempts[1].by = last.handler
       /\ last.attempts[1].outcome = "error" =>
            /\ last.error = (IF last.handler = "analyze_images"
                               THEN "AIEngineError" ELSE "ReportGeneratorError")
            /\ last.response = "raised"
       /\ last.attempts[1].outcome = "ok" =>
            /\ last.error = "none"
            /\ last.response = "returned"
  /\ last.handler \in {"submit", "analyze"} =>
       \A n \in 1..Len(last.attempts) :
         /\ \A m \in 1..Len(last.attempts) :
              m # n => last.attempts[m].by # last.attempts[n].by
         /\ last.attempts[n].outcome = "error" => n = Len(last.attempts)

\* a call of analyze_images whose one attempt raised
C13_Witness ==
  /\ last.handler = "analyze_images"
  /\ Len(last.attempts) = 1
  /\ last.attempts[1].outcome = "error"
  /\ last.error = "AIEngineError"

-----------------------------------------------------------------------------
(* Vocabulary of C16 *)

\* the last request was a dashboard submit made with anonymize enabled
AnonymizedSubmit == last.handler = "submit" /\ last.anonymize

\* a patient info dict with the name "Anonymous" and the other values entered
AnonymousWithEnteredValues(info) ==
  /\ info.name = Anonymous
  /\ info.age = last.request.age
  /\ info.gender = last.request.gender
  /\ info.complaint = last.request.complaint
  /\ info.medical_history = last.request.medical_history

\* every request the submit sent to the model and everything it stored carry
\* "Anonymous" and the other values entered
SentAndStoredAnonymous ==
  /\ \A n \in 1..Len(last.attempts) :
       LET sent == last.attempts[n].sent
       IN  /\ "name" \in DOMAIN sent => sent.name = Anonymous
           /\ sent.age = last.request.age
           /\ sent.gender = last.request.gender
           /\ sent.complaint = last.request.complaint
           /\ sent.medical_history = last.request.medical_history
  /\ last.response = "st.success" =>
       LET entry == session_state.history[Len(session_state.history)]
       IN  /\ AnonymousWithEnteredValues(session_state.current_analysis.patient_info)
           /\ entry.patient = Anonymous
           /\ entry.results = session_state.current_analysis

-----------------------------------------------------------------------------
(* C16, as stated: after a submit made with anonymize enabled, everything  *)
(* sent and stored carries "Anonymous" and the other values entered, and   *)
(* the name entered (a non-empty one) is stored nowhere in the session.    *)
C16_AsStated ==
  (AnonymizedSubmit /\ last.request.name # <<>>) =>
    /\ SentAndStoredAnonymous
    /\ session_state.patient_name # last.request.name

(* C16, amended: after a submit made with anonymize enabled, the patient   *)
(* info sent to analyze_images and to both report generations and the      *)
(* patient info and label stored in current_analysis and in the history    *)
(* entry carry the name "Anonymous" and the age, gender, complaint and     *)
(* medical history entered; the entered name is in the session only as the *)
(* value of the form's patient_name widget.                                *)
C16_AnonymousSentAndStored ==
  AnonymizedSubmit =>
    /\ SentAndStoredAnonymous
    /\ session_state.patient_name = last.request.name

\* a submit with anonymize enabled has stored its results for a patient whose
\* name was entered
C16_Witness ==
  /\ AnonymizedSubmit
  /\ last.response = "st.success"
  /\ last.request.name = JaneDoe
  /\ last.request.age = 45
  /\ Len(last.attempts) = 3
  /\ session_state.history[1].patient = Anonymous
  /\ session_state.current_analysis.patient_info.age = 45
  /\ session_state.patient_name = JaneDoe

-----------------------------------------------------------------------------
(* C24, as stated: in the route POST /dentist/analyze and in the dashboard *)
(* submit, analyze_images is never called with an empty image list, and    *)
(* the dashboard submit makes no model call when the patient name is       *)
(* empty.                                                                  *)
C24_NoModelCallWithoutImage ==
  last.handler \in {"submit", "analyze"} =>
    /\ \A n \in 1..Len(last.attempts) :
         last.attempts[n].by = "analyze_images" => last.attempts[n].images > 0
    /\ (last.handler = "submit" /\ last.request.name = <<>>) => last.attempts = <<>>

-----------------------------------------------------------------------------
CurrentDentist ==
  LET user == get_current_user(request_session, users)
  IN  IF user # NoUser /\ user.user_type = "dentist" THEN user ELSE NoUser

\* the stored analyses of a user
RowsOf(user) == {analyses[n] : n \in {m \in 1..Len(analyses) : analyses[m].user_id = user.id}}

(* C21: a dentist reads only their own analyses. GET /dentist by a dentist *)
(* lists exactly the Analysis rows whose user_id is the current user's id, *)
(* and GET /dentist/report/{id} by a dentist streams a PDF, of that row,   *)
(* only when the row of that id has the current user's id as user_id; in   *)
(* every other case it redirects to /dentist.                              *)
C21_DentistReadsOnlyOwnAnalyses ==
  CurrentDentist # NoUser =>
    /\ last.handler = "dentist_dashboard" =>
         /\ last.response = "dentist.html"
         /\ {page[k] : k \in 1..Len(page)} = RowsOf(CurrentDentist)
         /\ Len(page) = Cardinality(RowsOf(CurrentDentist))
    /\ last.handler = "download_report" =>
         IF \E row \in RowsOf(CurrentDentist) : row.id = last.request.analysis_id
           THEN /\ last.response = "application/pdf"
                /\ page.filename = last.request.analysis_id
                /\ \E row \in RowsOf(CurrentDentist) :
                     /\ row.id = last.request.analysis_id
                     /\ page = report_pdf(row, Timestamp1)
           ELSE last.response = "302 /dentist"

\* a dentist asks for the report of a row another dentist stored and is sent
\* back to /dentist
C21_Witness ==
  /\ CurrentDentist # NoUser
  /\ last.handler = "download_report"
  /\ last.response = "302 /dentist"
  /\ \E n \in 1..Len(analyses) : /\ analyses[n].id = last.request.analysis_id
                                  /\ analyses[n].user_id # CurrentDentist.id

\* the routes of app/routes/admin.py
AdminHandlers == {"admin_panel", "create_user", "bind_api_key"}

\* the user of the session, when that user passes the admin routes' test
CurrentAdmin ==
  LET user == get_current_user(request_session, users)
  IN  IF user # NoUser /\ user.is_admin THEN user ELSE NoUser

(* C22: only an authenticated admin changes the users table. A request to *)
(* /admin, /admin/create_user or /admin/bind_api_key made with no session  *)
(* or by a user whose is_admin is false is redirected to "/" and leaves    *)
(* every User row, openai_api_key included, as it was; and no step at all  *)
(* changes the table unless it is create_user or bind_api_key requested by *)
(* an admin.                                                               *)
C22_OnlyAdminChangesUsers ==
  [][ /\ (last'.handler \in AdminHandlers /\ CurrentAdmin = NoUser) =>
           /\ last'.response = "302 /"
           /\ users' = users
      /\ users' # users =>
           /\ last'.handler \in {"create_user", "bind_api_key"}
           /\ CurrentAdmin # NoUser ]_vars

\* a logged-in dentist asks to bind a key and is redirected to "/"
C22_Witness ==
  /\ last.handler = "bind_api_key"
  /\ last.response = "302 /"
  /\ get_current_user(request_session, users) # NoUser
  /\ ~get_current_user(request_session, users).is_admin
  /\ \E n \in 1..Len(users) : users[n].id = last.request.user_id

\* the routes of app/routes/dentist.py
DentistHandlers == {"dentist_dashboard", "analyze", "download_report"}

\* the rows whose stored hash the password of a login request verifies against
Verified(request) ==
  {users[n] : n \in {m \in 1..Len(users) :
                       /\ users[m].username = request.username
                       /\ bcrypt_verify(request.password, users[m].password_hash)}}

(* C23: the session carries a user_id only after a POST /login whose       *)
(* password verified against that user's stored hash. The session changes  *)
(* only by such a login, which stores that user's id, or by GET /logout,   *)
(* which empties it; a failed login answers the login page and leaves the  *)
(* session unchanged; after a logout get_current_user returns None; and    *)
(* while get_current_user returns None every /admin and /dentist route     *)
(* redirects to "/".                                                       *)
C23_SessionOnlyByVerifiedLogin ==
  [][ /\ request_session' # request_session =>
           \/ /\ last'.handler = "login_post"
              /\ \E user \in Verified(last'.request) :
                   request_session' = << << "user_id", user.id >> >>
           \/ /\ last'.handler = "logout"
              /\ request_session' = EmptySession
      /\ (last'.handler = "login_post" /\ Verified(last'.request) = {}) =>
           /\ request_session' = request_session
           /\ last'.response = "login.html"
      /\ last'.handler = "logout" =>
           get_current_user(request_session', users') = NoUser
      /\ (/\ get_current_user(request_session, users) = NoUser
          /\ last'.handler \in AdminHandlers \cup DentistHandlers) =>
           /\ last'.response = "302 /"
           /\ users' = users
           /\ analyses' = analyses ]_vars

\* a dentist has logged in, stored an analysis and logged out; the dashboard
\* now redirects
C23_Witness ==
  /\ request_session = EmptySession
  /\ analyses # <<>>
  /\ last.handler = "dentist_dashboard"
  /\ last.response = "302 /"

====
